---- MODULE Spec2Model ----
(***************************************************************************)
(* Model of src/financial_analyzer.py: fetch_gemini_response, the bounded  *)
(* retry client around one HTTP POST, with exponential backoff and the     *)
(* extraction of the answer text and the citation list from the response.  *)
(*                                                                         *)
(* One call is a small state machine: Call enters the for loop of line 33, *)
(* Attempt is one iteration of the loop body (lines 34-78), Exhausted is   *)
(* the fall-through to line 80.  The remote service is the environment: it *)
(* answers every request with a status and a body, or the transport fails. *)
(*                                                                         *)
(* The page of lines 94-130 is the caller: PressButton is a run of the     *)
(* script with the button pressed, Render is the part of the handler after *)
(* the client has returned (lines 119-130).                                *)
(***************************************************************************)
EXTENDS Integers, Sequences, FiniteSets, TLC

VARIABLES
    pc,           \* "idle" | "loop" (at the for statement) | "done" | "raised"
    max_retries,  \* the argument of the running call
    attempt,      \* the loop variable of line 33
    response,     \* what the last request of the call was answered with
    log,          \* the call's observable events, in order
    result,       \* the pair the call returned
    exit,         \* which return statement ended the call
    topic,        \* the text of the input field, a sequence of characters
    run,          \* the script run: "ready" | "fetching" (at line 117)
    ui,           \* what the handler of the last button press has shown
    invocations,  \* calls of the client made by the last button press
    calls         \* calls of the client entered so far: 0, 1, or 2 for more

vars == <<pc, max_retries, attempt, response, log, result, exit,
          topic, run, ui, invocations, calls>>
page == <<topic, run, ui, invocations>>

(***************************************************************************)
(* Bounds of the model.                                                    *)
(***************************************************************************)
\* The largest max_retries a call is given (the default, 5, is within it).
MaxRetriesArg == 5
\* The longest groundingAttributions list the service returns.
MaxAttrs == 3

\* The default of the max_retries parameter.
DefaultMaxRetries == 5

(***************************************************************************)
(* JSON values, as json.loads builds them: None, str, list and dict.       *)
(* Strings of the universe have at most one character, so that s[0] = s    *)
(* for a non-empty string.                                                 *)
(***************************************************************************)
JNull == [k |-> "null"]
JStr(s) == [k |-> "str", s |-> s]
JList(xs) == [k |-> "list", items |-> xs]
JObj(f) == [k |-> "obj", f |-> f]
EmptyDict == JObj([x \in {} |-> JNull])

\* A raised exception in place of a value; it propagates through every
\* operation applied to it.  code is the status an HTTPError carries.
Raise(exc) == [k |-> "fault", exc |-> exc, code |-> 0]
IsFault(v) == v.k = "fault"

\* dict.get(key, default); any other type has no attribute get.
Get(v, key, default) ==
    IF IsFault(v) THEN v
    ELSE IF v.k = "obj"
         THEN IF key \in DOMAIN v.f THEN v.f[key] ELSE default
         ELSE Raise("AttributeError")

\* An indexing that gives {} for an empty list instead of raising.
Index0_Lenient(v) ==
    IF IsFault(v) THEN v
    ELSE CASE v.k = "list" -> IF Len(v.items) > 0 THEN v.items[1] ELSE JObj([x \in {} |-> JNull])
           [] v.k = "str"  -> IF v.s # "" THEN v ELSE Raise("IndexError")
           [] v.k = "obj"  -> Raise("KeyError")
           [] v.k = "null" -> Raise("TypeError")

\* v[0].
Index0(v) ==
    IF IsFault(v) THEN v
    ELSE CASE v.k = "list" -> IF Len(v.items) > 0 THEN v.items[1] ELSE Raise("IndexError")
           [] v.k = "str"  -> IF v.s # "" THEN v ELSE Raise("IndexError")
           [] v.k = "obj"  -> Raise("KeyError")
           [] v.k = "null" -> Raise("TypeError")

\* bool(v).
Truthy(v) ==
    CASE v.k = "null" -> FALSE
      [] v.k = "str"  -> v.s # ""
      [] v.k = "list" -> Len(v.items) > 0
      [] v.k = "obj"  -> DOMAIN v.f # {}

RECURSIVE KeySeq(_)
KeySeq(S) ==
    IF S = {} THEN <<>>
    ELSE LET x == CHOOSE y \in S : TRUE IN <<JStr(x)>> \o KeySeq(S \ {x})

\* The elements `for attr in v` visits: a dict yields its keys, a string
\* its characters.  Only truthy values are iterated (line 56), so None,
\* which is not iterable, never is.
Iterate(v) ==
    CASE v.k = "list" -> v.items
      [] v.k = "str"  -> <<v>>
      [] v.k = "obj"  -> KeySeq(DOMAIN v.f)

(***************************************************************************)
(* The response body.  A body is either text that is not JSON, or the JSON *)
(* value its text encodes.                                                 *)
(***************************************************************************)
Garbage == [k |-> "garbage"]

\* json.loads(response.read().decode()), line 48.
json_loads(body) ==
    IF body.k = "garbage" THEN Raise("JSONDecodeError") ELSE body

NoAnalysis == JStr("No analysis generated.")

\* attr.get('web', {}).get(field), lines 59-63.
WebField(attr, field) == Get(Get(attr, "web", EmptyDict), field, JNull)

\* A filter that tests the URI only.
HasTitleAndUri_UriOnly(attr) == WebField(attr, "uri")

\* The filter of the comprehension, line 63.
HasTitleAndUri(attr) ==
    LET uri == WebField(attr, "uri")
        title == WebField(attr, "title")
    IN  IF IsFault(uri) THEN uri
        ELSE IF ~Truthy(uri) THEN JNull
        ELSE title

\* The list comprehension of lines 57-64 over the attributions, in order.
RECURSIVE Comprehension(_)
Comprehension(attrs) ==
    IF attrs = <<>> THEN [fault |-> FALSE, exc |-> "", items |-> <<>>]
    ELSE LET attr == Head(attrs)
             keep == HasTitleAndUri(attr)
             rest == Comprehension(Tail(attrs))
         IN  IF IsFault(keep)
             THEN [fault |-> TRUE, exc |-> keep.exc, items |-> <<>>]
             ELSE IF rest.fault THEN rest
             ELSE IF Truthy(keep)
                  THEN [rest EXCEPT !.items =
                           <<[title |-> WebField(attr, "title"),
                              uri |-> WebField(attr, "uri")]>> \o @]
                  ELSE rest

\* Lines 54-64: the citations of a candidate.
Sources(candidate) ==
    LET grounding_metadata == Get(candidate, "groundingMetadata", JNull)
        none == [fault |-> FALSE, exc |-> "", items |-> <<>>]
    IN  IF IsFault(grounding_metadata)
        THEN [fault |-> TRUE, exc |-> grounding_metadata.exc, items |-> <<>>]
        ELSE IF ~Truthy(grounding_metadata) THEN none
        ELSE LET attributions == Get(grounding_metadata, "groundingAttributions", JNull)
             IN  IF IsFault(attributions)
                 THEN [fault |-> TRUE, exc |-> attributions.exc, items |-> <<>>]
                 ELSE IF ~Truthy(attributions) THEN none
                 ELSE Comprehension(Iterate(attributions))

\* The answer text without the placeholder default.
Text_NoDefault(candidate) ==
    Get(Index0(Get(Get(candidate, "content", EmptyDict),
                   "parts", JList(<<EmptyDict>>))),
        "text", JNull)

\* Line 52: the answer text of a candidate.
Text(candidate) ==
    Get(Index0(Get(Get(candidate, "content", EmptyDict),
                   "parts", JList(<<EmptyDict>>))),
        "text", NoAnalysis)

\* Lines 48-66: what parsing a 200 body gives, a pair or a raised exception.
Extract(body) ==
    LET parsed == json_loads(body)
        candidate == Index0(Get(parsed, "candidates", JList(<<EmptyDict>>)))
        text == Text(candidate)
        sources == Sources(candidate)
    IN  IF IsFault(text) THEN [fault |-> TRUE, exc |-> text.exc, text |-> JNull, sources |-> <<>>]
        ELSE IF sources.fault
             THEN [fault |-> TRUE, exc |-> sources.exc, text |-> JNull, sources |-> <<>>]
             ELSE [fault |-> FALSE, exc |-> "", text |-> text, sources |-> sources.items]

(***************************************************************************)
(* The bodies the service answers a 200 with.                              *)
(***************************************************************************)
Web(title, uri) == JObj("web" :> JObj("title" :> JStr(title) @@ "uri" :> JStr(uri)))
AttrEmptyWeb == JObj("web" :> EmptyDict)
AttrNoWeb == EmptyDict
AttrNoUri == JObj("web" :> JObj("title" :> JStr("A")))
AttrNullUri == JObj("web" :> JObj("title" :> JStr("A") @@ "uri" :> JNull))
AttrNullWeb == JObj("web" :> JNull)

\* The attributions the lists of the universe are built from.
AttrUniverse == {Web("A", "u"), Web("B", "v"), Web("", "u"), AttrEmptyWeb}
AttrSeqs == UNION {[1..n -> AttrUniverse] : n \in 0..MaxAttrs}

Content(text) == JObj("parts" :> JList(<<JObj("text" :> text)>>))
Grounding(attrs) == JObj("groundingAttributions" :> JList(attrs))
Candidates(c) == JObj("candidates" :> JList(<<c>>))
Answer(text, attrs) ==
    JObj("content" :> Content(text) @@ "groundingMetadata" :> Grounding(attrs))

\* Bodies of the documented shape: an answer and a list of attributions.
AnswerBodies == {Candidates(Answer(JStr("T"), attrs)) : attrs \in AttrSeqs}

\* Bodies with a key of the documented shape left out.
MissingBodies ==
    { EmptyDict,
      Candidates(EmptyDict),
      Candidates(JObj("content" :> EmptyDict)),
      Candidates(JObj("content" :> JObj("parts" :> JList(<<EmptyDict>>)))),
      Candidates(JObj("content" :> Content(JStr("T")))),
      Candidates(JObj("content" :> Content(JStr("T")) @@ "groundingMetadata" :> EmptyDict)),
      Candidates(JObj("content" :> Content(JStr("T")) @@ "groundingMetadata" :> JNull)),
      Candidates(JObj("groundingMetadata" :> Grounding(<<Web("A", "u")>>))),
      Candidates(JObj("groundingMetadata" :> Grounding(<<Web("A", "u"), Web("B", "v")>>))),
      Candidates(JObj("content" :> EmptyDict
                      @@ "groundingMetadata" :> Grounding(<<Web("B", "v")>>))),
      Candidates(Answer(JStr("T"), <<AttrNoWeb, Web("A", "u")>>)),
      Candidates(Answer(JStr("T"), <<AttrNoUri, Web("B", "v"), AttrNullUri>>)),
      JObj("candidates" :> JList(<<Answer(JStr("T"), <<Web("A", "u")>>),
                                   Answer(JStr(""), <<Web("B", "v")>>)>>)) }

\* Bodies of another shape than the documented one.
MalformedBodies ==
    { Garbage,
      JNull,
      JList(<<>>),
      JList(<<Candidates(Answer(JStr("T"), <<>>))>>),
      JStr("T"),
      JObj("candidates" :> JList(<<>>)),
      JObj("candidates" :> JNull),
      Candidates(JNull),
      Candidates(JObj("content" :> JNull)),
      Candidates(JObj("content" :> JObj("parts" :> JList(<<>>)))),
      Candidates(JObj("content" :> JObj("parts" :> JNull))),
      Candidates(JObj("content" :> JObj("parts" :> JList(<<JObj("text" :> JNull)>>)))),
      Candidates(JObj("content" :> Content(JStr("")))),
      Candidates(Answer(JStr("T"), <<AttrNullWeb>>)),
      Candidates(JObj("groundingMetadata" :> Grounding(<<AttrNullWeb>>))),
      Candidates(Answer(JStr("T"), <<Web("A", "u"), AttrNullWeb>>)),
      Candidates(Answer(JStr("T"), <<Web("A", "u"), JNull>>)),
      Candidates(JObj("content" :> Content(JStr("T"))
                      @@ "groundingMetadata" :> JList(<<Web("A", "u")>>))),
      Candidates(JObj("content" :> Content(JStr("T"))
                      @@ "groundingMetadata" :> JObj("groundingAttributions" :> JStr("A")))),
      Candidates(JObj("content" :> Content(JStr("T"))
                      @@ "groundingMetadata" :> JObj("groundingAttributions" :> Web("A", "u")))) }

Bodies == AnswerBodies \cup MissingBodies \cup MalformedBodies

(***************************************************************************)
(* The service and the transport.                                          *)
(***************************************************************************)
Statuses == {200, 201, 404, 429, 500, 502, 503}
NoBody == JStr("")
NoResponse == [kind |-> "none"]
Responded(status, body) == [kind |-> "response", status |-> status, body |-> body]
Failed(exc) == [kind |-> "fault", exc |-> exc]

\* What one request can be answered with: a status (a 200 with any body of
\* the universe), or a transport failure (no connection, timeout).
Outcomes ==
    {Responded(200, b) : b \in Bodies}
    \cup {Responded(s, NoBody) : s \in Statuses \ {200}}
    \cup {Failed("URLError"), Failed("TimeoutError")}

\* The classes an exception is an instance of.
Mro(exc) ==
    CASE exc = "HTTPError"       -> {"HTTPError", "URLError", "OSError", "Exception"}
      [] exc = "URLError"        -> {"URLError", "OSError", "Exception"}
      [] exc = "TimeoutError"    -> {"TimeoutError", "OSError", "Exception"}
      [] exc = "JSONDecodeError" -> {"JSONDecodeError", "ValueError", "Exception"}
      [] exc = "IndexError"      -> {"IndexError", "LookupError", "Exception"}
      [] exc = "KeyError"        -> {"KeyError", "LookupError", "Exception"}
      [] OTHER                   -> {exc, "Exception"}

HTTPError(code) == [k |-> "fault", exc |-> "HTTPError", code |-> code]

\* urlopen(req, timeout=10), line 44: the response, or the exception raised.
\* A status outside 2xx is raised by urlopen itself as an HTTPError.
urlopen(o) ==
    IF o.kind = "fault" THEN [raised |-> TRUE, e |-> Raise(o.exc)]
    ELSE IF o.status \notin 200..299 THEN [raised |-> TRUE, e |-> HTTPError(o.status)]
    ELSE [raised |-> FALSE, response |-> o]

\* A try block that parses whatever urlopen returns, without the test of
\* line 45.
TryBlock_Any2xx(o) ==
    LET opened == urlopen(o)
    IN  IF opened.raised THEN opened
        ELSE LET x == Extract(opened.response.body)
             IN  IF x.fault THEN [raised |-> TRUE, e |-> Raise(x.exc)]
                 ELSE [raised |-> FALSE, text |-> x.text, sources |-> x.sources]

\* Lines 34-66, the try block: the pair returned, or the exception raised.
TryBlock(o) ==
    LET opened == urlopen(o)
    IN  IF opened.raised THEN opened
        ELSE IF opened.response.status # 200
             THEN [raised |-> TRUE, e |-> HTTPError(opened.response.status)]
        ELSE LET x == Extract(opened.response.body)
             IN  IF x.fault THEN [raised |-> TRUE, e |-> Raise(x.exc)]
                 ELSE [raised |-> FALSE, text |-> x.text, sources |-> x.sources]

\* A second clause that catches the I/O errors only.
SecondClause_OSError == "OSError"

\* The except clauses of lines 68 and 76, tried in order.
FirstClause == "HTTPError"
SecondClause == "Exception"
Handler(e) ==
    IF FirstClause \in Mro(e.exc) THEN "http"
    ELSE IF SecondClause \in Mro(e.exc) THEN "any"
    ELSE "uncaught"

\* Retrying 502 too; retrying whatever the attempt index; retrying up to
\* and including the last index.
RetryableCodes_With502 == {429, 500, 502, 503}
ShouldRetry_NoBound(i, n, code) == code \in {429, 500, 503}
ShouldRetry_OffByOne(i, n, code) == i <= n - 1 /\ code \in {429, 500, 503}

\* Line 70.
RetryableCodes == {429, 500, 503}
ShouldRetry(i, n, code) == i < n - 1 /\ code \in RetryableCodes

\* A backoff that triples.
Backoff_Triple(i) == 3 ^ i

\* A backoff that starts at 2.
Backoff_FromTwo(i) == 2 ^ (i + 1)

\* Line 71.
Backoff(i) == 2 ^ i

ErrorText == JStr("Error fetching analysis.")
MaxRetriesText == JStr("Max retries reached. Could not complete the request.")
Pair(text, sources) == [text |-> text, sources |-> sources]
NoResult == [none |-> TRUE]

\* The events of a call: a request sent, its answer, a sleep, a st.error.
Ev(e, v) == [e |-> e, v |-> v]
Answered(o) == IF o.kind = "response" THEN Ev("response", o.status) ELSE Ev("fault", 0)

(***************************************************************************)
(* The call.                                                               *)
(***************************************************************************)
\* The input field: texts of blanks and of a letter.  Line 96 gives the
\* field a default text that is not blank.
Topics == {<<>>, <<" ">>, <<" ", " ">>, <<"x">>, <<" ", "x">>, <<"x", " ">>}
DefaultTopic == <<"x">>

\* str.strip(): the text without its leading and trailing blanks.
RECURSIVE LStrip(_)
LStrip(t) == IF t # <<>> /\ Head(t) = " " THEN LStrip(Tail(t)) ELSE t
RECURSIVE RStrip(_)
RStrip(t) ==
    IF t # <<>> /\ t[Len(t)] = " " THEN RStrip(SubSeq(t, 1, Len(t) - 1)) ELSE t
Strip(t) == RStrip(LStrip(t))

\* A test of the text as typed, blanks included.
Blank_NoStrip(t) == t = <<>>

\* Line 100: not topic.strip().
Blank(t) == Strip(t) = <<>>

Init ==
    /\ pc = "idle"
    /\ max_retries = DefaultMaxRetries
    /\ attempt = 0
    /\ response = NoResponse
    /\ log = <<>>
    /\ result = NoResult
    /\ exit = "none"
    /\ topic = DefaultTopic
    /\ run = "ready"
    /\ ui = <<>>
    /\ invocations = 0
    /\ calls = 0

\* An entry that goes on from the attempt index the last call ended with.
Enter_KeepsAttempt(n) ==
    /\ max_retries' = n
    /\ pc' = "loop"
    /\ attempt' = attempt
    /\ response' = NoResponse
    /\ log' = <<>>
    /\ result' = NoResult
    /\ exit' = "none"
    /\ calls' = IF calls = 0 THEN 1 ELSE 2

\* Lines 15-33: the function is entered with max_retries = n; the loop
\* variable and everything else of the call is local and starts afresh.
Enter(n) ==
    /\ max_retries' = n
    /\ pc' = "loop"
    /\ attempt' = 0
    /\ response' = NoResponse
    /\ log' = <<>>
    /\ result' = NoResult
    /\ exit' = "none"
    /\ calls' = IF calls = 0 THEN 1 ELSE 2

\* fetch_gemini_response(user_query, system_prompt, max_retries) is called;
\* a call starts when no call is running (the program is single-threaded).
Call ==
    /\ pc \in {"idle", "done"}
    /\ run = "ready"
    /\ \E n \in (-1..MaxRetriesArg) \cup {DefaultMaxRetries} : Enter(n)
    /\ UNCHANGED page

\* A success that does not return: the loop goes on.
ReturnSuccess_KeepLooping(t, sent) ==
    /\ pc' = "loop"
    /\ log' = sent
    /\ attempt' = attempt + 1
    /\ UNCHANGED <<result, exit>>

\* Line 66: return text, sources.
ReturnSuccess(t, sent) ==
    /\ pc' = "done"
    /\ result' = Pair(t.text, t.sources)
    /\ exit' = "success"
    /\ log' = sent
    /\ attempt' = attempt

\* A retry that sends the same attempt index again.
OnHTTPError_SameIndex(e, sent) ==
    IF ShouldRetry(attempt, max_retries, e.code)
    THEN /\ log' = Append(sent, Ev("sleep", Backoff(attempt)))
         /\ attempt' = attempt
         /\ pc' = "loop"
         /\ UNCHANGED <<result, exit>>
    ELSE /\ log' = Append(sent, Ev("st_error", e.code))
         /\ result' = Pair(ErrorText, <<>>)
         /\ exit' = "http_error"
         /\ pc' = "done"
         /\ attempt' = attempt

\* A handler that reports every HTTP error, the retried ones too.
OnHTTPError_NotifyOnRetry(e, sent) ==
    IF ShouldRetry(attempt, max_retries, e.code)
    THEN /\ log' = sent \o <<Ev("st_error", e.code), Ev("sleep", Backoff(attempt))>>
         /\ attempt' = attempt + 1
         /\ pc' = "loop"
         /\ UNCHANGED <<result, exit>>
    ELSE /\ log' = Append(sent, Ev("st_error", e.code))
         /\ result' = Pair(ErrorText, <<>>)
         /\ exit' = "http_error"
         /\ pc' = "done"
         /\ attempt' = attempt

\* Lines 68-75: except HTTPError.
OnHTTPError(e, sent) ==
    IF ShouldRetry(attempt, max_retries, e.code)
    THEN /\ log' = Append(sent, Ev("sleep", Backoff(attempt)))
         /\ attempt' = attempt + 1
         /\ pc' = "loop"
         /\ UNCHANGED <<result, exit>>
    ELSE /\ log' = Append(sent, Ev("st_error", e.code))
         /\ result' = Pair(ErrorText, <<>>)
         /\ exit' = "http_error"
         /\ pc' = "done"
         /\ attempt' = attempt

\* An unexpected exception retried with backoff while attempts remain.
OnException_Retry(e, sent) ==
    IF attempt < max_retries - 1
    THEN /\ log' = Append(sent, Ev("sleep", Backoff(attempt)))
         /\ attempt' = attempt + 1
         /\ pc' = "loop"
         /\ UNCHANGED <<result, exit>>
    ELSE /\ log' = Append(sent, Ev("st_error", 0))
         /\ result' = Pair(ErrorText, <<>>)
         /\ exit' = "exception"
         /\ pc' = "done"
         /\ attempt' = attempt

\* Lines 76-78: except Exception.
OnException(e, sent) ==
    /\ log' = Append(sent, Ev("st_error", 0))
    /\ result' = Pair(ErrorText, <<>>)
    /\ exit' = "exception"
    /\ pc' = "done"
    /\ attempt' = attempt

\* No clause matches: the exception leaves the function.
Propagate(e, sent) ==
    /\ log' = sent
    /\ pc' = "raised"
    /\ UNCHANGED <<result, exit, attempt>>

\* One iteration of the loop of line 33: lines 34-78.
Attempt ==
    /\ pc = "loop"
    /\ attempt < max_retries
    /\ \E o \in Outcomes :
          LET t == TryBlock(o)
              sent == log \o <<Ev("request", attempt), Answered(o)>>
          IN  /\ response' = o
              /\ IF ~t.raised THEN ReturnSuccess(t, sent)
                 ELSE CASE Handler(t.e) = "http" -> OnHTTPError(t.e, sent)
                        [] Handler(t.e) = "any" -> OnException(t.e, sent)
                        [] OTHER -> Propagate(t.e, sent)
    /\ UNCHANGED <<max_retries, calls>>
    /\ UNCHANGED page

\* Line 80: range(max_retries) is used up.
Exhausted ==
    /\ pc = "loop"
    /\ attempt >= max_retries
    /\ pc' = "done"
    /\ result' = Pair(MaxRetriesText, <<>>)
    /\ exit' = "exhausted"
    /\ UNCHANGED <<max_retries, attempt, response, log, calls>>
    /\ UNCHANGED page

Next == Call \/ Attempt \/ Exhausted

Spec == Init /\ [][Next]_vars

(***************************************************************************)
(* The page.                                                               *)
(***************************************************************************)
\* Lines 99-117: the script runs with the button pressed.  A blank topic
\* gets a warning; any other topic has the client called with the default
\* max_retries.
PressButton ==
    /\ run = "ready"
    /\ pc \in {"idle", "done"}
    /\ \E t \in Topics :
          /\ topic' = t
          /\ IF Blank(t)
             THEN /\ ui' = <<"warning">>
                  /\ invocations' = 0
                  /\ UNCHANGED <<pc, max_retries, attempt, response, log, result,
                                 exit, run, calls>>
             ELSE /\ ui' = <<"spinner">>
                  /\ invocations' = 1
                  /\ run' = "fetching"
                  /\ Enter(DefaultMaxRetries)

\* The client, running for the handler: an iteration of its loop, or the
\* return after the loop.
ClientStep ==
    /\ run = "fetching"
    /\ Attempt \/ Exhausted

\* Lines 119-130: the client has returned to the handler, which shows the
\* analysis and the citations or the note; the script run ends, and with it
\* the locals of the call.
Render ==
    /\ run = "fetching"
    /\ pc = "done"
    /\ ui' = <<"subheader", "info">>
              \o (IF result.sources # <<>>
                  THEN <<"source_citations", "markdown_list">>
                  ELSE <<"markdown_note">>)
    /\ run' = "ready"
    /\ pc' = "idle"
    /\ attempt' = 0
    /\ response' = NoResponse
    /\ log' = <<>>
    /\ result' = NoResult
    /\ exit' = "none"
    /\ UNCHANGED <<topic, invocations, max_retries, calls>>

PageNext == PressButton \/ ClientStep \/ Render

PageSpec == Init /\ [][PageNext]_vars

\* The interpreter runs the loop on: urlopen returns or raises within its
\* timeout (line 44) and time.sleep returns (line 72), so an iteration that
\* can run does run, and so does the return of line 80.
FairSpec == Spec /\ WF_vars(Attempt) /\ WF_vars(Exhausted)

(***************************************************************************)
(* Vocabulary of the properties: what a log and a body show.               *)
(***************************************************************************)
Count(l, e) == Cardinality({i \in 1..Len(l) : l[i].e = e})
Values(l, e) ==
    LET sel == SelectSeq(l, LAMBDA x : x.e = e)
    IN  [i \in 1..Len(sel) |-> sel[i].v]

\* <<1, 2, 4, ...>>, n durations, each the double of the one before.
RECURSIVE Doubling(_)
Doubling(n) ==
    IF n = 0 THEN <<>>
    ELSE IF n = 1 THEN <<1>>
    ELSE LET p == Doubling(n - 1) IN Append(p, 2 * p[n - 1])

RetryableStatus(s) == s = 429 \/ s = 500 \/ s = 503

\* Every answer but the last one was a retryable status.
EarlierAllRetryable ==
    LET got == Values(log, "response")
    IN  /\ Count(log, "fault") = 0
        /\ \A i \in 1..(Len(got) - 1) : RetryableStatus(got[i])

\* Every answer of the call was a retryable status.
AllRetryable ==
    /\ Count(log, "fault") = 0
    /\ \A i \in 1..Len(log) : log[i].e = "response" => RetryableStatus(log[i].v)

Got200 == response.kind = "response" /\ response.status = 200

\* The log ends with the current attempt's request, its answer, and then tl.
EndsWith(tl) ==
    /\ Len(log) >= 2 + Len(tl)
    /\ SubSeq(log, Len(log) - Len(tl) - 1, Len(log))
         = <<Ev("request", attempt), Answered(response)>> \o tl

\* Shapes of a body.
IsDict(v) == v.k = "obj"
IsList(v) == v.k = "list"
Has(v, key) == IsDict(v) /\ key \in DOMAIN v.f
HasCandidate(b) ==
    /\ Has(b, "candidates") /\ IsList(b.f.candidates)
    /\ Len(b.f.candidates.items) > 0
    /\ IsDict(b.f.candidates.items[1])
Candidate0(b) == b.f.candidates.items[1]
HasContent(b) ==
    HasCandidate(b) /\ Has(Candidate0(b), "content") /\ IsDict(Candidate0(b).f.content)
HasPart(b) ==
    /\ HasContent(b)
    /\ Has(Candidate0(b).f.content, "parts")
    /\ IsList(Candidate0(b).f.content.f.parts)
    /\ Len(Candidate0(b).f.content.f.parts.items) > 0
    /\ IsDict(Candidate0(b).f.content.f.parts.items[1])
Part0(b) == Candidate0(b).f.content.f.parts.items[1]

MissingCandidates(b) == IsDict(b) /\ ~Has(b, "candidates")
MissingContent(b) == HasCandidate(b) /\ ~Has(Candidate0(b), "content")
MissingParts(b) == HasContent(b) /\ ~Has(Candidate0(b).f.content, "parts")

\* The attributions of the first candidate, when it has a list of them.
HasAttributions(c) ==
    /\ Has(c, "groundingMetadata")
    /\ Has(c.f.groundingMetadata, "groundingAttributions")
    /\ IsList(c.f.groundingMetadata.f.groundingAttributions)
Attributions(c) == c.f.groundingMetadata.f.groundingAttributions.items

\* The grounding metadata of a candidate has the documented shape, or is
\* absent: every attribution is an object whose web, if any, is an object.
GroundingOK(c) ==
    \/ ~Has(c, "groundingMetadata")
    \/ c.f.groundingMetadata = JNull
    \/ /\ IsDict(c.f.groundingMetadata)
       /\ \/ ~Has(c.f.groundingMetadata, "groundingAttributions")
          \/ /\ HasAttributions(c)
             /\ \A i \in 1..Len(Attributions(c)) :
                   /\ IsDict(Attributions(c)[i])
                   /\ Has(Attributions(c)[i], "web") => IsDict(Attributions(c)[i].f.web)

\* A body of the documented shape: the first candidate has a text part and
\* grounding metadata of the documented shape, or none.
WellFormed(b) ==
    /\ HasPart(b) /\ Has(Part0(b), "text") /\ Part0(b).f.text.k = "str"
    /\ GroundingOK(Candidate0(b))

NonEmptyText(v) == v.k = "str" /\ v.s # ""
Cited(a) ==
    /\ Has(a, "web") /\ Has(a.f.web, "title") /\ Has(a.f.web, "uri")
    /\ NonEmptyText(a.f.web.f.title) /\ NonEmptyText(a.f.web.f.uri)

\* The attributions with a title and a URI, in the order of the service.
ExpectedCitations(c) ==
    IF ~HasAttributions(c) THEN <<>>
    ELSE LET sel == SelectSeq(Attributions(c), Cited)
         IN  [i \in 1..Len(sel) |->
                 [title |-> sel[i].f.web.f.title, uri |-> sel[i].f.web.f.uri]]

(***************************************************************************)
(* C1.  For max_retries >= 1 no exception leaves the call: it ends by      *)
(* returning a pair, which is a success result (a 200 was parsed) or one   *)
(* of the two failure sentinels with an empty list.                        *)
(***************************************************************************)
C1_NoFaultPropagates ==
    max_retries >= 1 =>
        /\ pc # "raised"
        /\ pc = "done" =>
              /\ result # NoResult
              /\ \/ exit = "success" /\ Got200
                 \/ result = Pair(ErrorText, <<>>)
                 \/ result = Pair(MaxRetriesText, <<>>)

\* A body that does not parse was caught, after retries, and a sentinel returned.
C1_Witness ==
    /\ pc = "done" /\ max_retries >= 1 /\ attempt >= 1
    /\ response = Responded(200, Garbage)
    /\ result = Pair(ErrorText, <<>>)

(***************************************************************************)
(* C2, as stated.  When every attempt of a call with max_retries >= 1 gets *)
(* a retryable status, the call uses all max_retries attempts and returns  *)
(* ("Max retries reached. Could not complete the request.", []).           *)
(***************************************************************************)
C2_Original ==
    (pc = "done" /\ max_retries >= 1 /\ AllRetryable) =>
        /\ Count(log, "request") = max_retries
        /\ result = Pair(MaxRetriesText, <<>>)

(***************************************************************************)
(* C2, amended.  When every attempt of a call with max_retries >= 1 gets a *)
(* retryable status, the call uses all max_retries attempts, waits         *)
(* max_retries - 1 times, emits one error notification after the last      *)
(* answer and returns ("Error fetching analysis.", []) from the handler of *)
(* line 75; it sends nothing more.                                         *)
(***************************************************************************)
C2_AllRetryableEndsInError ==
    (pc = "done" /\ max_retries >= 1 /\ AllRetryable) =>
        /\ Count(log, "request") = max_retries
        /\ Count(log, "sleep") = max_retries - 1
        /\ Count(log, "st_error") = 1
        /\ EndsWith(<<Ev("st_error", response.status)>>)
        /\ exit = "http_error"
        /\ result = Pair(ErrorText, <<>>)

\* Five attempts with the default bound, every one answered 429.
C2_Witness ==
    /\ pc = "done" /\ max_retries = DefaultMaxRetries
    /\ Values(log, "response") = <<429, 429, 429, 429, 429>>

(***************************************************************************)
(* C3.  When attempts 0..k-1 get a retryable status and attempt k gets a   *)
(* well-formed 200, the log is, for i = 0..k-1, the request i, its answer  *)
(* and a sleep of 2^i, then the request k and its answer: k waits of       *)
(* 1, 2, 4, ..., each between a failed attempt and the next request, and   *)
(* the call returns the success result.                                    *)
(***************************************************************************)
C3_BackoffThenSuccess ==
    (pc = "done" /\ max_retries >= 1 /\ Got200 /\ EarlierAllRetryable
        /\ WellFormed(response.body)) =>
        LET k == Len(Values(log, "response")) - 1
        IN  /\ k < max_retries
            /\ Len(log) = 3 * k + 2
            /\ \A i \in 0..(k - 1) :
                  /\ log[3 * i + 1] = Ev("request", i)
                  /\ log[3 * i + 2].e = "response"
                  /\ RetryableStatus(log[3 * i + 2].v)
                  /\ log[3 * i + 3].e = "sleep"
            /\ log[3 * k + 1] = Ev("request", k)
            /\ log[3 * k + 2] = Ev("response", 200)
            /\ Values(log, "sleep") = Doubling(k)
            /\ exit = "success"
            /\ result.text = Part0(response.body).f.text

\* max_retries = 5 and k = 4: the waits 1, 2, 4, 8, then the result.
C3_Witness ==
    /\ pc = "done" /\ max_retries = 5 /\ exit = "success"
    /\ Values(log, "response") = <<429, 429, 429, 429, 200>>
    /\ Values(log, "sleep") = <<1, 2, 4, 8>>

(***************************************************************************)
(* C4.  An HTTP error status other than 429, 500 and 503, on any attempt,  *)
(* ends the call at once: the notification follows the answer directly,    *)
(* ("Error fetching analysis.", []) is returned, no wait follows the       *)
(* attempt and no request is sent after it; on the first attempt the call  *)
(* has waited zero times.                                                  *)
(***************************************************************************)
C4_NonRetryableStatusFailsAtOnce ==
    (max_retries >= 1 /\ response.kind = "response"
        /\ response.status >= 400 /\ ~RetryableStatus(response.status)) =>
        /\ pc = "done"
        /\ exit = "http_error"
        /\ result = Pair(ErrorText, <<>>)
        /\ EndsWith(<<Ev("st_error", response.status)>>)
        /\ Count(log, "request") = attempt + 1
        /\ Count(log, "sleep") = attempt
        /\ attempt = 0 => Count(log, "sleep") = 0

\* A 404 on the first attempt of a call with attempts to spare.
C4_Witness ==
    /\ pc = "done" /\ max_retries = 5 /\ attempt = 0
    /\ response = Responded(404, NoBody)
    /\ Count(log, "sleep") = 0
    /\ result = Pair(ErrorText, <<>>)

(***************************************************************************)
(* C5, as stated.  For a 200 whose body is missing candidates, or whose    *)
(* first candidate is missing content, or whose content is missing parts,  *)
(* the call returns ("No analysis generated.", []), raises no fault and    *)
(* emits no error notification.                                            *)
(***************************************************************************)
MissingField(b) == MissingCandidates(b) \/ MissingContent(b) \/ MissingParts(b)
FirstCandidate(b) == IF HasCandidate(b) THEN Candidate0(b) ELSE EmptyDict

C5_Original ==
    (pc = "done" /\ max_retries >= 1 /\ Got200 /\ MissingField(response.body)) =>
        /\ exit = "success"
        /\ result = Pair(NoAnalysis, <<>>)
        /\ Count(log, "st_error") = 0

(***************************************************************************)
(* C5, amended.  For a 200 whose body is missing candidates, or whose      *)
(* first candidate is missing content, or whose content is missing parts,  *)
(* and whose first candidate's grounding metadata, if any, is well-formed, *)
(* the call returns the answer "No analysis generated.", raises no fault   *)
(* and emits no error notification; the citation list is empty when        *)
(* candidates is missing or the candidate has no attributions, and is      *)
(* otherwise the candidate's attributions that have a title and a URI.     *)
(***************************************************************************)
C5_MissingFieldGivesPlaceholder ==
    (max_retries >= 1 /\ Got200 /\ MissingField(response.body)
        /\ GroundingOK(FirstCandidate(response.body))) =>
        /\ pc = "done"
        /\ exit = "success"
        /\ result.text = JStr("No analysis generated.")
        /\ result.sources = ExpectedCitations(FirstCandidate(response.body))
        /\ MissingCandidates(response.body) => result.sources = <<>>
        /\ ~HasAttributions(FirstCandidate(response.body)) => result.sources = <<>>
        /\ Count(log, "st_error") = 0

\* A candidate without content but with one attribution: the placeholder
\* answer comes with a citation.
C5_Witness ==
    /\ pc = "done" /\ max_retries >= 1 /\ Got200
    /\ MissingContent(response.body)
    /\ result.text = NoAnalysis
    /\ Len(result.sources) = 1

(***************************************************************************)
(* C6, as stated.  For a 200 whose body is not valid JSON, or whose top    *)
(* level is not an object, or whose candidates or parts is an empty list,  *)
(* or whose content or web field is null, the call returns                 *)
(* ("No analysis generated.", []) with no fault raised, not a failure.     *)
(***************************************************************************)
NotJSON(b) == b = Garbage
TopNotObject(b) == b.k \in {"null", "list", "str"}
EmptyCandidates(b) == Has(b, "candidates") /\ b.f.candidates = JList(<<>>)
EmptyParts(b) ==
    /\ HasContent(b) /\ Has(Candidate0(b).f.content, "parts")
    /\ Candidate0(b).f.content.f.parts = JList(<<>>)
NullContent(b) ==
    HasCandidate(b) /\ Has(Candidate0(b), "content") /\ Candidate0(b).f.content = JNull
NullWeb(b) ==
    /\ HasCandidate(b) /\ HasAttributions(Candidate0(b))
    /\ \E i \in 1..Len(Attributions(Candidate0(b))) :
          /\ Has(Attributions(Candidate0(b))[i], "web")
          /\ Attributions(Candidate0(b))[i].f.web = JNull
UnexpectedShape(b) ==
    \/ NotJSON(b) \/ TopNotObject(b) \/ EmptyCandidates(b)
    \/ EmptyParts(b) \/ NullContent(b) \/ NullWeb(b)

C6_Original ==
    (pc = "done" /\ max_retries >= 1 /\ Got200 /\ UnexpectedShape(response.body)) =>
        /\ exit = "success"
        /\ result = Pair(NoAnalysis, <<>>)
        /\ Count(log, "st_error") = 0

(***************************************************************************)
(* C6, amended.  For a 200 whose body is not valid JSON, or whose top      *)
(* level is not an object, or whose candidates or parts is an empty list,  *)
(* or whose content or web field is null, parsing raises an exception that *)
(* the handler of line 76 catches: the call emits one error notification   *)
(* and returns ("Error fetching analysis.", []) at once, without retry;    *)
(* no fault reaches the caller.                                            *)
(***************************************************************************)
C6_UnexpectedShapeFails ==
    (max_retries >= 1 /\ Got200 /\ UnexpectedShape(response.body)) =>
        /\ pc = "done"
        /\ exit = "exception"
        /\ result = Pair(ErrorText, <<>>)
        /\ EndsWith(<<Ev("st_error", 0)>>)
        /\ Count(log, "st_error") = 1
        /\ Count(log, "request") = attempt + 1
        /\ Count(log, "sleep") = attempt

\* An empty candidates list on the first attempt of a call with attempts left.
C6_Witness ==
    /\ pc = "done" /\ max_retries = 5 /\ attempt = 0
    /\ response = Responded(200, JObj("candidates" :> JList(<<>>)))
    /\ result = Pair(ErrorText, <<>>)

(***************************************************************************)
(* C7.  On a success the citation list is the subsequence of the first     *)
(* candidate's groundingAttributions whose web.title and web.uri are both  *)
(* present and non-empty, in the order of the service, duplicates kept; so *)
(* every citation returned has a non-empty title and a non-empty URI.      *)
(***************************************************************************)
C7_CitationsAreTheFilteredAttributions ==
    (pc = "done" /\ exit = "success") =>
        /\ result.sources = ExpectedCitations(FirstCandidate(response.body))
        /\ \A i \in 1..Len(result.sources) :
              /\ NonEmptyText(result.sources[i].title)
              /\ NonEmptyText(result.sources[i].uri)

\* The attributions [{A,u}, {"",u}, {}] give one citation.
C7_Witness ==
    /\ pc = "done" /\ exit = "success"
    /\ HasAttributions(FirstCandidate(response.body))
    /\ Attributions(FirstCandidate(response.body))
         = <<Web("A", "u"), Web("", "u"), AttrEmptyWeb>>
    /\ result.sources = <<[title |-> JStr("A"), uri |-> JStr("u")]>>

(***************************************************************************)
(* C8.  A well-formed 200 ends the call at the attempt that receives it:   *)
(* the call returns the text of that body unchanged, the answer is the     *)
(* last event of the call (no request, no wait after it) and no error      *)
(* notification is emitted, whatever came before and however many attempts *)
(* remain.                                                                 *)
(***************************************************************************)
C8_WellFormed200EndsTheCall ==
    (max_retries >= 1 /\ Got200 /\ WellFormed(response.body)) =>
        /\ pc = "done"
        /\ exit = "success"
        /\ result.text = Part0(response.body).f.text
        /\ EndsWith(<<>>)
        /\ Count(log, "request") = attempt + 1
        /\ Count(log, "sleep") = attempt
        /\ Count(log, "st_error") = 0

\* A success on the third attempt of five, after two retried failures.
C8_Witness ==
    /\ pc = "done" /\ max_retries = 5 /\ attempt = 2
    /\ Got200 /\ WellFormed(response.body)
    /\ Values(log, "response") = <<503, 429, 200>>
    /\ result.text = JStr("T")

(***************************************************************************)
(* C9.  A fault that is not an HTTP status error (no connection, timeout,  *)
(* a body that does not decode), on any attempt and even with attempts     *)
(* left, makes the call emit an error notification and return              *)
(* ("Error fetching analysis.", []) at once: no retry, no wait after it.   *)
(***************************************************************************)
C9_UnexpectedFaultFailsAtOnce ==
    (max_retries >= 1
        /\ (response.kind = "fault" \/ (Got200 /\ NotJSON(response.body)))) =>
        /\ pc = "done"
        /\ exit = "exception"
        /\ result = Pair(ErrorText, <<>>)
        /\ EndsWith(<<Ev("st_error", 0)>>)
        /\ Count(log, "st_error") = 1
        /\ Count(log, "request") = attempt + 1
        /\ Count(log, "sleep") = attempt

\* A timeout on the second attempt of five.
C9_Witness ==
    /\ pc = "done" /\ max_retries = 5 /\ attempt = 1
    /\ response = Failed("TimeoutError")
    /\ Values(log, "sleep") = <<1>>
    /\ result = Pair(ErrorText, <<>>)

(***************************************************************************)
(* C10.  When the last attempt (index max_retries - 1) gets a retryable    *)
(* status, every earlier attempt having been retried, the call does not    *)
(* wait again: it emits an error notification and returns                  *)
(* ("Error fetching analysis.", []) at once.                               *)
(***************************************************************************)
C10_LastAttemptRetryableFails ==
    (max_retries >= 1 /\ Count(log, "request") = max_retries
        /\ response.kind = "response" /\ RetryableStatus(response.status)) =>
        /\ pc = "done"
        /\ attempt = max_retries - 1
        /\ exit = "http_error"
        /\ result = Pair(ErrorText, <<>>)
        /\ EndsWith(<<Ev("st_error", response.status)>>)
        /\ Count(log, "st_error") = 1
        /\ Count(log, "sleep") = max_retries - 1

\* Three attempts, the last one answered 503 after two retries.
C10_Witness ==
    /\ pc = "done" /\ max_retries = 3 /\ attempt = 2
    /\ Values(log, "response") = <<429, 500, 503>>
    /\ Values(log, "sleep") = <<1, 2>>
    /\ exit = "http_error"

(***************************************************************************)
(* C11.  For max_retries >= 1, a call that returned a failure result has   *)
(* emitted exactly one error notification, as its last event before the    *)
(* return; a call that returned a success result has emitted none; while   *)
(* the call is still retrying it has emitted none.                         *)
(***************************************************************************)
C11_OneNotificationPerFailure ==
    max_retries >= 1 =>
        /\ (pc = "done" /\ exit \in {"http_error", "exception"}) =>
              /\ Count(log, "st_error") = 1
              /\ log[Len(log)].e = "st_error"
              /\ result = Pair(ErrorText, <<>>)
        /\ (pc = "done" /\ exit = "success") => Count(log, "st_error") = 0
        /\ pc = "loop" => Count(log, "st_error") = 0
        /\ pc = "done" => exit \in {"http_error", "exception", "success"}

\* A failure after three retried attempts: three sleeps, one notification.
C11_Witness ==
    /\ pc = "done" /\ max_retries = 5 /\ exit = "http_error"
    /\ Values(log, "response") = <<429, 500, 503, 404>>
    /\ Count(log, "sleep") = 3
    /\ Count(log, "st_error") = 1

(***************************************************************************)
(* C12.  Only a status of exactly 200 gives a success result.  A response  *)
(* delivered with another 2xx status is not parsed: it is handled as an    *)
(* HTTP error carrying that status, which is not retryable, so the call    *)
(* notifies and returns ("Error fetching analysis.", []) at once.          *)
(***************************************************************************)
Other2xx == response.kind = "response" /\ response.status \in 201..299

C12_Only200Succeeds ==
    max_retries >= 1 =>
        /\ exit = "success" => Got200
        /\ Other2xx =>
              /\ pc = "done"
              /\ exit = "http_error"
              /\ result = Pair(ErrorText, <<>>)
              /\ EndsWith(<<Ev("st_error", response.status)>>)
              /\ Count(log, "request") = attempt + 1
              /\ Count(log, "sleep") = attempt

\* A 201 on the second attempt of five.
C12_Witness ==
    /\ pc = "done" /\ max_retries = 5 /\ attempt = 1
    /\ response = Responded(201, NoBody)
    /\ exit = "http_error"

(***************************************************************************)
(* C13.  Every call with max_retries >= 1 terminates: it sends at most     *)
(* max_retries requests, the attempt index takes only values in            *)
(* 0..max_retries-1, the requests carry the indices 0, 1, 2, ... in order, *)
(* none repeated or skipped, and a running call eventually returns.        *)
(***************************************************************************)
RequestsInOrder ==
    LET sent == Values(log, "request")
    IN  \A i \in 1..Len(sent) : sent[i] = i - 1

C13_EveryCallTerminates ==
    /\ [](max_retries >= 1 =>
            /\ Count(log, "request") <= max_retries
            /\ attempt \in 0..(max_retries - 1)
            /\ RequestsInOrder)
    /\ (pc = "loop" /\ max_retries >= 1) ~> (pc = "done")

\* A call that used all five attempts and returned.
C13_Witness ==
    /\ pc = "done" /\ max_retries = 5
    /\ Values(log, "request") = <<0, 1, 2, 3, 4>>

(***************************************************************************)
(* C14.  In every state of a call with max_retries >= 1 the number of      *)
(* backoff waits is at most max_retries - 1 and equals the attempt index,  *)
(* the waits add up to at most 2^(max_retries-1) - 1, and no wait follows  *)
(* the request of the final attempt.                                       *)
(***************************************************************************)
RECURSIVE SumSeq(_)
SumSeq(q) == IF q = <<>> THEN 0 ELSE Head(q) + SumSeq(Tail(q))

C14_WaitsAreBounded ==
    max_retries >= 1 =>
        /\ Count(log, "sleep") <= max_retries - 1
        /\ Count(log, "sleep") = attempt
        /\ SumSeq(Values(log, "sleep")) <= 2 ^ (max_retries - 1) - 1
        /\ \A i \in 1..Len(log) : \A j \in 1..Len(log) :
              (log[i] = Ev("request", max_retries - 1) /\ j > i) => log[j].e # "sleep"

\* The worst case of five attempts: waits of 1 + 2 + 4 + 8 = 15.
C14_Witness ==
    /\ pc = "done" /\ max_retries = 5 /\ attempt = 4
    /\ SumSeq(Values(log, "sleep")) = 15

(***************************************************************************)
(* C17.  The return of line 80, with the result ("Max retries reached.     *)
(* Could not complete the request.", []), is taken exactly when the loop   *)
(* body never runs, that is when max_retries <= 0; the call has then sent  *)
(* no request, waited for nothing and emitted no notification.  For        *)
(* max_retries >= 1 the call returns from inside the loop.                 *)
(***************************************************************************)
C17_MaxRetriesTextOnlyWithoutAttempts ==
    pc = "done" =>
        /\ exit = "exhausted" <=> max_retries <= 0
        /\ result = Pair(MaxRetriesText, <<>>) <=> max_retries <= 0
        /\ max_retries <= 0 => log = <<>> /\ response = NoResponse
        /\ max_retries >= 1 => Count(log, "request") >= 1

\* A call with max_retries = 0.
C17_Witness ==
    /\ pc = "done" /\ max_retries = 0
    /\ result = Pair(MaxRetriesText, <<>>)
    /\ log = <<>>

(***************************************************************************)
(* C15.  Successive calls are independent.  Whatever state an earlier call *)
(* left, a call is entered with attempt index 0, an empty log and no       *)
(* result; and in every state of every call, the first one or a later one, *)
(* the requests carry the indices 0, 1, 2, ... and the waits are 1, 2, 4,  *)
(* ..., one per retried attempt: they are fixed by the call's own attempts.*)
(***************************************************************************)
C15_CallsAreIndependent ==
    /\ [][(pc # "loop" /\ pc' = "loop") =>
             /\ attempt' = 0
             /\ log' = <<>>
             /\ response' = NoResponse
             /\ result' = NoResult
             /\ exit' = "none"]_vars
    /\ [](/\ RequestsInOrder
          /\ Values(log, "sleep") = Doubling(attempt)
          /\ Count(log, "request") \in {attempt, attempt + 1}
          /\ pc = "loop" => Count(log, "request") = attempt)

\* A later call, retried twice: its first wait is 1 again and its indices
\* start at 0.
C15_Witness ==
    /\ calls = 2 /\ pc = "loop" /\ attempt = 2
    /\ Values(log, "request") = <<0, 1>>
    /\ Values(log, "sleep") = <<1, 2>>

(***************************************************************************)
(* C16.  When the button is pressed with a topic that is empty or only     *)
(* blanks, the page shows a warning and does not call the client: nothing  *)
(* is sent, nothing is waited for, no analysis and no citation section is  *)
(* shown.  A press with any other topic calls the client exactly once.     *)
(***************************************************************************)
OnlyBlanks(t) == \A i \in 1..Len(t) : t[i] = " "

C16_BlankTopicWarnsWithoutCall ==
    /\ OnlyBlanks(topic) =>
          /\ run = "ready"
          /\ pc = "idle"
          /\ log = <<>>
          /\ ui = <<"warning">>
          /\ invocations = 0
    /\ (~OnlyBlanks(topic) /\ ui # <<>>) =>
          /\ invocations = 1
          /\ ui[1] # "warning"
          /\ run = "fetching" <=> ui = <<"spinner">>
          /\ run = "ready" => (ui[1] = "subheader" /\ ui[2] = "info")
    /\ run = "fetching" => pc \in {"loop", "done"}

\* After an analysis was shown for an earlier press, a press with two blanks.
C16_Witness ==
    /\ calls >= 1
    /\ topic = <<" ", " ">>
    /\ ui = <<"warning">>
    /\ invocations = 0
    /\ log = <<>>

====
